---- MODULE Spec2Model ----
(***************************************************************************)
(* The itinerary document compiler of AI-travel-Advisor.                   *)
(*                                                                         *)
(* src/app.py: generate_pdf reads the generated text line by line, keeps   *)
(* a section state, a stop buffer and the timeline rows, and appends       *)
(* flowables to the list `story`, which doc.build renders at the end.      *)
(* src/travel_agent_py.py: create_pdf does the same from the structured    *)
(* (JSON) itinerary, without a parser.                                     *)
(*                                                                         *)
(* A string is a sequence of tokens.  A token is a word or a run of other  *)
(* characters; " " is a run of whitespace and ":" a colon, so that the     *)
(* marker "STOP:" is the two tokens "STOP", ":" and contains a colon as    *)
(* it does in the source.                                                  *)
(***************************************************************************)
EXTENDS Naturals, Sequences, FiniteSets

VARIABLES
    program,        \* which script runs: "app" (app.py) or "travel_agent"
                    \* (travel_agent_py.py)
    pc,             \* app: "start" (the form is submitted), "loop" (generate_pdf is
                    \* in its for loop), "built" (doc.build ran), "done";
                    \* travel_agent: "start", "head", "days", "stops", "built"
                    \* (create_pdf), "saved", "done"
    run,            \* what the run has done so far: generated ("pending", "ok",
                    \* "failed"), builder (generate_pdf / create_pdf was called),
                    \* file (a PDF file was written), email ("none", "sent",
                    \* "failed", "raised"), download (the download button is shown)
    itinerary,      \* travel_agent: the part of itinerary['detailed_itinerary'] that
                    \* create_pdf has consumed, a list of [day, stops]
    lines,          \* the lines of text_content the loop has consumed, in order
    section_state,  \* app.py:237
    stop_buffer,    \* app.py:234
    timeline_data,  \* app.py:235
    current_day,    \* app.py:233
    story,          \* app.py:230
    story_alt,      \* the story of a second run on the same text whose fetch_image
                    \* answers the opposite at every call
    origin,         \* history: for each block of story, the numbers of the input
                    \* lines it was made from
    buf_src         \* history: the input line number of each line of stop_buffer

vars == <<program, pc, run, itinerary, lines, section_state, stop_buffer, timeline_data, current_day,
          story, story_alt, origin, buf_src>>

----------------------------------------------------------------------------
(* Bounds *)

\* Longest input enumerated line by line over Vocabulary.
MaxLines == 4

\* Most items (days and stops together) of a structured itinerary.
MaxItems == 4

----------------------------------------------------------------------------
(* Python's str operations, on token sequences *)

RECURSIVE lstrip(_)
lstrip(s) ==
    IF s # <<>> /\ Head(s) = " " THEN lstrip(Tail(s)) ELSE s

RECURSIVE rstrip(_)
rstrip(s) ==
    IF s # <<>> /\ s[Len(s)] = " " THEN rstrip(SubSeq(s, 1, Len(s) - 1)) ELSE s

strip(s) ==
    rstrip(lstrip(s))

startswith(s, p) ==
    Len(s) >= Len(p) /\ SubSeq(s, 1, Len(p)) = p

\* p in s
contains(s, p) ==
    \E k \in 1..(Len(s) + 1 - Len(p)) : SubSeq(s, k, k + Len(p) - 1) = p

\* s.replace(p, r), p not empty
RECURSIVE replace(_, _, _)
replace(s, p, r) ==
    IF Len(s) < Len(p) THEN s
    ELSE IF startswith(s, p)
         THEN r \o replace(SubSeq(s, Len(p) + 1, Len(s)), p, r)
         ELSE <<Head(s)>> \o replace(Tail(s), p, r)

\* s.rsplit(sep, 1): the split at the last sep
split1_last(s, sep) ==
    IF \E k \in 1..Len(s) : s[k] = sep
    THEN LET k == CHOOSE j \in 1..Len(s) :
                      s[j] = sep /\ \A m \in (j + 1)..Len(s) : s[m] # sep
         IN  <<SubSeq(s, 1, k - 1), SubSeq(s, k + 1, Len(s))>>
    ELSE <<s>>

\* s.split(sep, 1): at most one split, at the first sep
split1(s, sep) ==
    IF \E k \in 1..Len(s) : s[k] = sep
    THEN LET k == CHOOSE j \in 1..Len(s) :
                      s[j] = sep /\ \A m \in 1..(j - 1) : s[m] # sep
         IN  <<SubSeq(s, 1, k - 1), SubSeq(s, k + 1, Len(s))>>
    ELSE <<s>>

----------------------------------------------------------------------------
(* Markers *)

TIMELINE_START  == <<"TIMELINE_START">>
TIMELINE_END    == <<"TIMELINE_END">>
ITINERARY_START == <<"ITINERARY_START">>
ITINERARY_END   == <<"ITINERARY_END">>
DAY             == <<"Day">>
STOP            == <<"STOP", ":">>
BEST_TIME       == <<"BEST TIME", ":">>
LOGISTICS       == <<"LOGISTICS", ":">>
FOOD            == <<"FOOD", ":">>
TITLE           == <<"TITLE", ":">>
OVERVIEW        == <<"OVERVIEW", ":">>
GETTING_THERE   == <<"GETTING_THERE", ":">>
TRAVEL_TIPS     == <<"TRAVEL_TIPS", ":">>
COLON           == <<":">>

\* the form field `destination`
destination == <<"Paris">>

----------------------------------------------------------------------------
(* reportlab flowables *)

Paragraph(text, style) == [kind |-> "Paragraph", text |-> text, style |-> style]
Spacer(h)              == [kind |-> "Spacer", height |-> h]
PageBreak              == [kind |-> "PageBreak"]
Table(data)            == [kind |-> "Table", data |-> data]
KeepTogether(t)        == [kind |-> "KeepTogether", table |-> t]
ReportLabImage(bytes)  == [kind |-> "Image", bytes |-> bytes]

\* fetch_image returns the image bytes, or None (no result, or any exception)
FetchResults == {"None", "bytes"}

Opposite(img_bytes) == IF img_bytes = "None" THEN "bytes" ELSE "None"

----------------------------------------------------------------------------
(* create_stop_table: the side-by-side [text | image] panel of one stop *)

\* the value of place_name after the loop over the buffered lines
RECURSIVE place_name(_)
place_name(buf) ==
    IF buf = <<>> THEN <<>>
    ELSE IF startswith(buf[Len(buf)], STOP)
         THEN strip(replace(buf[Len(buf)], STOP, <<>>))
         ELSE place_name(SubSeq(buf, 1, Len(buf) - 1))

\* what one buffered line adds to details_text
detail_of(line) ==
    IF startswith(line, STOP)
    THEN <<Paragraph(<<"<b>", "pin", " ">> \o strip(replace(line, STOP, <<>>)) \o <<"</b>">>,
                     "Bold")>>
    ELSE IF startswith(line, BEST_TIME)
    THEN <<Paragraph(<<"<b>Best Time:</b>", " ">> \o replace(line, BEST_TIME, <<>>), "Body")>>
    ELSE IF startswith(line, LOGISTICS)
    THEN <<Paragraph(<<"<b>Logistics:</b>", " ">> \o replace(line, LOGISTICS, <<>>), "Body")>>
    ELSE IF startswith(line, FOOD)
    THEN <<Spacer(5), Paragraph(<<"<b>Nearby Eats:</b>">>, "Bold")>>
    ELSE <<Paragraph(line, "Body")>>

RECURSIVE details_text(_)
details_text(buf) ==
    IF buf = <<>> THEN <<>>
    ELSE detail_of(Head(buf)) \o details_text(Tail(buf))

search_query(buf) ==
    destination \o <<" ">> \o place_name(buf)

img_col(img_bytes) ==
    IF img_bytes # "None" THEN <<ReportLabImage(img_bytes)>> ELSE <<>>

\* without an image the text goes to the story as it is, with no table
create_stop_table_textonly(buf, img_bytes) ==
    IF img_bytes # "None"
    THEN <<KeepTogether(Table(<< <<details_text(buf), img_col(img_bytes)>> >>)), Spacer(15)>>
    ELSE details_text(buf) \o <<Spacer(15)>>

\* the flowables create_stop_table appends to story, img_bytes being what
\* fetch_image(search_query) returned
create_stop_table(buf, img_bytes) ==
    <<KeepTogether(Table(<< <<details_text(buf), img_col(img_bytes)>> >>)), Spacer(15)>>

----------------------------------------------------------------------------
(* generate_pdf: the input *)

L_Day2            == <<"Day", " ", "2", ":", " ", "Louvre and Seine walk">>
L_StopEiffel      == <<"STOP", ":", " ", "Eiffel Tower">>
L_BestTime        == <<"BEST TIME", ":", " ", "9", ":", "00 AM">>
L_Plain           == <<" ", "Bring a coat">>
L_Blank           == <<" ">>

\* the lines an enumerated input is made of
Vocabulary ==
    {TIMELINE_START, TIMELINE_END, ITINERARY_START, ITINERARY_END,
     L_Day2, L_StopEiffel, L_BestTime, L_Plain, L_Blank}

\* the end-to-end scenario of the specification (section 8)
EndToEnd ==
    << <<"TITLE", ":", " ", "Paris Trip">>,
       <<"OVERVIEW", ":", " ", "Great city">>,
       <<"TIMELINE_START">>,
       <<"Day", " ", "1", ":", " ", "Arrival">>,
       <<"TIMELINE_END">>,
       <<"ITINERARY_START">>,
       <<"Day", " ", "1", ":", " ", "Arrival Day">>,
       <<"STOP", ":", " ", "Eiffel Tower">>,
       <<"BEST TIME", ":", " ", "9 AM">>,
       <<"ITINERARY_END">>,
       <<"TRAVEL_TIPS", ":">>,
       <<"Bring a coat">> >>

\* a text of the shape the prompt of generate_itinerary_text asks for, two days
PromptShape ==
    << <<"TITLE", ":", " ", "Journey to ", "Paris">>,
       <<"OVERVIEW", ":", " ", "Great city">>,
       <<"GETTING_THERE", ":", " ", "Train">>,
       <<"TIMELINE_START">>,
       <<"Day", " ", "1", ":", " ", "Arrival">>,
       <<"Day", " ", "2", ":", " ", "Louvre and Seine walk">>,
       <<"TIMELINE_END">>,
       <<"ITINERARY_START">>,
       <<>>,
       <<"Day", " ", "1", ":", " ", "Arrival Day">>,
       <<>>,
       <<"STOP", ":", " ", "Eiffel Tower">>,
       <<"BEST TIME", ":", " ", "09", ":", "00 AM">>,
       <<"LOGISTICS", ":", " ", "Metro">>,
       <<"DETAILS", ":", " ", "Iron tower">>,
       <<"FOOD", ":">>,
       <<"-", " ", "Veg", ":", " ", "Le Potager">>,
       <<>>,
       <<"STOP", ":", " ", "Trocadero">>,
       <<"BEST TIME", ":", " ", "2", ":", "00 PM">>,
       <<"Day", " ", "2", ":", " ", "Museums">>,
       <<"STOP", ":", " ", "Louvre">>,
       <<"ITINERARY_END">>,
       <<>>,
       <<"TRAVEL_TIPS", ":">>,
       <<"Bring a coat">> >>

\* a text with two timeline sections
TwoTimelines ==
    << TIMELINE_START,
       <<"Day", " ", "1", ":", " ", "Arrival">>,
       TIMELINE_END,
       TIMELINE_START,
       <<"Day", " ", "2", ":", " ", "Louvre and Seine walk">>,
       TIMELINE_END >>

\* a text whose second day opens with a sentence before its first stop
DayIntro ==
    << ITINERARY_START,
       <<"Day", " ", "1", ":", " ", "Arrival Day">>,
       <<"STOP", ":", " ", "Eiffel Tower">>,
       <<"Day", " ", "2", ":", " ", "Museums">>,
       <<"A day of art">>,
       <<"STOP", ":", " ", "Louvre">>,
       ITINERARY_END >>

\* a text whose general lines hold more than one field marker
FieldOrder ==
    << <<"OVERVIEW", ":", " ", "see", " ", "TITLE", ":", " ", "Paris Trip">>,
       <<"TRAVEL_TIPS", ":", " ", "OVERVIEW", ":", " ", "Great city">>,
       <<"TRAVEL_TIPS", ":", " ", "GETTING_THERE", ":", " ", "Train">>,
       <<"Our", " ", "TRAVEL_TIPS", ":", " ", "Bring a coat">>,
       <<"Bring a coat">> >>

\* a text whose lines hold section markers beside other markers
MarkerLines ==
    << <<"TITLE", ":", " ", "ITINERARY_START">>,
       <<"STOP", ":", " ", "Eiffel Tower">>,
       <<"STOP", ":", " ", "ITINERARY_END", " ", "TIMELINE_START">>,
       <<"Day", " ", "1", ":", " ", "ITINERARY_START", " ", "TIMELINE_END">>,
       <<"ITINERARY_END", " ", "ITINERARY_START">>,
       <<"BEST TIME", ":", " ", "9 AM">>,
       <<"Day", " ", "2", ":", " ", "ITINERARY_END">> >>

Documents == {EndToEnd, PromptShape, TwoTimelines, DayIntro, FieldOrder, MarkerLines}

\* the lines that may come next in text_content
NextLines ==
    (IF Len(lines) < MaxLines THEN Vocabulary ELSE {})
    \cup {d[Len(lines) + 1] : d \in {e \in Documents :
              Len(e) > Len(lines) /\ SubSeq(e, 1, Len(lines)) = lines}}

----------------------------------------------------------------------------
(* generate_pdf: the loop body *)

\* a story.insert(0, ...) in place of story.append
story_append_front(st, blocks) ==
    blocks \o st

\* story.append, for the flowables one branch appends
story_append(st, blocks) ==
    st \o blocks

\* the STOP: test of the ITINERARY state made before the section detection
Branch_stop_first(raw, state) ==
    LET line == strip(raw) IN
    IF line = <<>> THEN "blank"
    ELSE IF state = "ITINERARY" /\ startswith(line, STOP) THEN "stop"
    ELSE IF contains(line, TIMELINE_START) THEN "TIMELINE_START"
    ELSE IF contains(line, TIMELINE_END) THEN "TIMELINE_END"
    ELSE IF contains(line, ITINERARY_START) THEN "ITINERARY_START"
    ELSE IF contains(line, ITINERARY_END) THEN "ITINERARY_END"
    ELSE IF state = "TIMELINE" THEN "timeline"
    ELSE IF state = "ITINERARY"
         THEN IF startswith(line, DAY) THEN "day" ELSE "other"
    ELSE "normal"

\* the branch of the loop body a raw line takes in section state `state`
Branch(raw, state) ==
    LET line == strip(raw) IN
    IF line = <<>> THEN "blank"
    ELSE IF contains(line, TIMELINE_START) THEN "TIMELINE_START"
    ELSE IF contains(line, TIMELINE_END) THEN "TIMELINE_END"
    ELSE IF contains(line, ITINERARY_START) THEN "ITINERARY_START"
    ELSE IF contains(line, ITINERARY_END) THEN "ITINERARY_END"
    ELSE IF state = "TIMELINE" THEN "timeline"
    ELSE IF state = "ITINERARY"
         THEN IF startswith(line, DAY) THEN "day"
              ELSE IF startswith(line, STOP) THEN "stop"
              ELSE "other"
    ELSE "normal"

\* TIMELINE_END and ITINERARY_END swapped
SectionAfter_swapped(marker) ==
    CASE marker = "TIMELINE_START"  -> "TIMELINE"
      [] marker = "TIMELINE_END"    -> "ITINERARY"
      [] marker = "ITINERARY_START" -> "ITINERARY"
      [] marker = "ITINERARY_END"   -> "NORMAL"

\* the section state a section marker sets
SectionAfter(marker) ==
    CASE marker = "TIMELINE_START"  -> "TIMELINE"
      [] marker = "TIMELINE_END"    -> "NORMAL"
      [] marker = "ITINERARY_START" -> "ITINERARY"
      [] marker = "ITINERARY_END"   -> "NORMAL"

\* the row a TIMELINE line adds to timeline_data, if any
timeline_rows(line) ==
    IF contains(line, COLON)
    THEN LET parts == split1(line, ":") IN
         IF Len(parts) = 2 THEN << <<strip(parts[1]), strip(parts[2])>> >> ELSE <<>>
    ELSE <<>>

\* TRAVEL_TIPS: tested first
normal_blocks_tips_first(line) ==
    IF contains(line, TRAVEL_TIPS)
    THEN <<PageBreak, Paragraph(<<"Travel Tips">>, "Header")>>
    ELSE IF contains(line, TITLE)
    THEN <<Paragraph(strip(replace(line, TITLE, <<>>)), "Title")>>
    ELSE IF contains(line, OVERVIEW)
    THEN <<Paragraph(<<"Trip Overview">>, "Header")>>
    ELSE IF contains(line, GETTING_THERE)
    THEN <<Spacer(10), Paragraph(<<"How to Reach ">> \o destination, "Header")>>
    ELSE <<Paragraph(line, "Body")>>

\* the OVERVIEW: branch also renders the text after the marker
normal_blocks_overview_text(line) ==
    IF contains(line, TITLE)
    THEN <<Paragraph(strip(replace(line, TITLE, <<>>)), "Title")>>
    ELSE IF contains(line, OVERVIEW)
    THEN <<Paragraph(<<"Trip Overview">>, "Header"),
           Paragraph(strip(replace(line, OVERVIEW, <<>>)), "Body")>>
    ELSE IF contains(line, GETTING_THERE)
    THEN <<Spacer(10), Paragraph(<<"How to Reach ">> \o destination, "Header")>>
    ELSE IF contains(line, TRAVEL_TIPS)
    THEN <<PageBreak, Paragraph(<<"Travel Tips">>, "Header")>>
    ELSE <<Paragraph(line, "Body")>>

\* the flowables a line adds in NORMAL state
normal_blocks(line) ==
    IF contains(line, TITLE)
    THEN <<Paragraph(strip(replace(line, TITLE, <<>>)), "Title")>>
    ELSE IF contains(line, OVERVIEW)
    THEN <<Paragraph(<<"Trip Overview">>, "Header")>>
    ELSE IF contains(line, GETTING_THERE)
    THEN <<Spacer(10), Paragraph(<<"How to Reach ">> \o destination, "Header")>>
    ELSE IF contains(line, TRAVEL_TIPS)
    THEN <<PageBreak, Paragraph(<<"Travel Tips">>, "Header")>>
    ELSE <<Paragraph(line, "Body")>>

\* the flowables a day line adds
day_blocks(line) ==
    <<Paragraph(line, "Day"), Paragraph(<<"<hr width='100%' color='#D4AF37'/>">>, "Body")>>

\* n copies of x
Copies(x, n) == [k \in 1..n |-> x]

Range(f) == {f[k] : k \in DOMAIN f}

Last(s) == s[Len(s)]

\* a step of the loop consumes one line
Consume(raw) ==
    /\ program = "app"
    /\ pc = "loop"
    /\ raw \in NextLines
    /\ lines' = Append(lines, raw)
    /\ UNCHANGED <<program, pc, run, itinerary>>

\* the step appends `blocks` in both runs, made from input lines `src`
Emit(blocks, src) ==
    /\ story' = story_append(story, blocks)
    /\ story_alt' = story_append(story_alt, blocks)
    /\ origin' = story_append(origin, Copies(src, Len(blocks)))

\* if stop_buffer: create_stop_table(story, stop_buffer, ...)
FlushStop ==
    IF stop_buffer # <<>>
    THEN \E img_bytes \in FetchResults :
            /\ story' = story_append(story, create_stop_table(stop_buffer, img_bytes))
            /\ story_alt' = story_append(story_alt,
                                create_stop_table(stop_buffer, Opposite(img_bytes)))
            /\ origin' = story_append(origin, Copies(buf_src, 2))
    ELSE UNCHANGED <<story, story_alt, origin>>

SkipBlank(raw) ==
    /\ Consume(raw)
    /\ Branch(raw, section_state) = "blank"
    /\ UNCHANGED <<section_state, stop_buffer, timeline_data, current_day,
                   story, story_alt, origin, buf_src>>

TimelineStart(raw) ==
    /\ Consume(raw)
    /\ Branch(raw, section_state) = "TIMELINE_START"
    /\ section_state' = SectionAfter("TIMELINE_START")
    /\ Emit(<<Paragraph(<<"Trip at a Glance">>, "Header"), Spacer(10)>>, <<Len(lines) + 1>>)
    /\ UNCHANGED <<stop_buffer, timeline_data, current_day, buf_src>>

TimelineEnd(raw) ==
    /\ Consume(raw)
    /\ Branch(raw, section_state) = "TIMELINE_END"
    /\ section_state' = SectionAfter("TIMELINE_END")
    /\ Emit(<<Table(timeline_data), PageBreak>>, <<Len(lines) + 1>>)
    /\ UNCHANGED <<stop_buffer, timeline_data, current_day, buf_src>>

ItineraryStart(raw) ==
    /\ Consume(raw)
    /\ Branch(raw, section_state) = "ITINERARY_START"
    /\ section_state' = SectionAfter("ITINERARY_START")
    /\ Emit(<<Paragraph(<<"Detailed Visual Guide">>, "Header")>>, <<Len(lines) + 1>>)
    /\ UNCHANGED <<stop_buffer, timeline_data, current_day, buf_src>>

ItineraryEnd(raw) ==
    /\ Consume(raw)
    /\ Branch(raw, section_state) = "ITINERARY_END"
    /\ section_state' = SectionAfter("ITINERARY_END")
    /\ FlushStop
    /\ UNCHANGED <<stop_buffer, timeline_data, current_day, buf_src>>

TimelineLine(raw) ==
    /\ Consume(raw)
    /\ Branch(raw, section_state) = "timeline"
    /\ timeline_data' = timeline_data \o timeline_rows(strip(raw))
    /\ UNCHANGED <<section_state, stop_buffer, current_day, story, story_alt,
                   origin, buf_src>>

ItineraryDay(raw) ==
    /\ Consume(raw)
    /\ Branch(raw, section_state) = "day"
    /\ current_day' = strip(raw)
    /\ Emit(day_blocks(strip(raw)), <<Len(lines) + 1>>)
    /\ UNCHANGED <<section_state, stop_buffer, timeline_data, buf_src>>

\* the buffer is not cleared after the flush
ItineraryStop_noclear(raw) ==
    /\ Consume(raw)
    /\ Branch(raw, section_state) = "stop"
    /\ FlushStop
    /\ stop_buffer' = Append(stop_buffer, strip(raw))
    /\ buf_src' = Append(buf_src, Len(lines) + 1)
    /\ UNCHANGED <<section_state, timeline_data, current_day>>

ItineraryStop(raw) ==
    /\ Consume(raw)
    /\ Branch(raw, section_state) = "stop"
    /\ FlushStop
    /\ stop_buffer' = <<strip(raw)>>
    /\ buf_src' = <<Len(lines) + 1>>
    /\ UNCHANGED <<section_state, timeline_data, current_day>>

ItineraryOther(raw) ==
    /\ Consume(raw)
    /\ Branch(raw, section_state) = "other"
    /\ IF stop_buffer # <<>>
       THEN /\ stop_buffer' = Append(stop_buffer, strip(raw))
            /\ buf_src' = Append(buf_src, Len(lines) + 1)
       ELSE UNCHANGED <<stop_buffer, buf_src>>
    /\ UNCHANGED <<section_state, timeline_data, current_day, story, story_alt, origin>>

NormalLine(raw) ==
    /\ Consume(raw)
    /\ Branch(raw, section_state) = "normal"
    /\ Emit(normal_blocks(strip(raw)), <<Len(lines) + 1>>)
    /\ UNCHANGED <<section_state, stop_buffer, timeline_data, current_day, buf_src>>

\* the loop is over: doc.build(story, ...)
Build ==
    /\ program = "app"
    /\ pc = "loop"
    /\ pc' = "built"
    /\ run' = [run EXCEPT !.file = TRUE]
    /\ UNCHANGED <<program, itinerary, lines, section_state, stop_buffer, timeline_data, current_day,
                   story, story_alt, origin, buf_src>>

----------------------------------------------------------------------------
(* create_pdf of travel_agent_py.py *)

\* the stops the generation source may put in a day
JsonStops ==
    { [time_of_day |-> <<"Morning">>, title |-> <<"Eiffel Tower">>,
       description |-> <<"Iron tower">>, best_time |-> <<"09", ":", "00 AM">>,
       logistics |-> <<"Metro">>, veg |-> <<"Ratatouille at Le Potager">>,
       non_veg |-> <<"Steak at Le Relais">>, search_query |-> <<"Eiffel Tower", " ", "Paris">>],
      [time_of_day |-> <<"Afternoon">>, title |-> <<"Louvre">>,
       description |-> <<"Museum">>, best_time |-> <<"2", ":", "00 PM">>,
       logistics |-> <<"Walk">>, veg |-> <<"Salad at Cafe Marly">>,
       non_veg |-> <<"Duck at Cafe Marly">>, search_query |-> <<"Louvre", " ", "Paris">>] }

\* the day numbers the generation source may give a day
JsonDayNumbers == {<<"1">>, <<"2">>}

\* itinerary['daily_overview']
JsonDailyOverviews ==
    { <<>>,
      <<[day |-> <<"1">>, theme |-> <<"Arrival">>]>>,
      <<[day |-> <<"1">>, theme |-> <<"Arrival">>], [day |-> <<"2">>, theme |-> <<"Museums">>]>> }

\* the title page, the overview table and the daily overview table
head_blocks(daily_overview) ==
    << Paragraph(<<"Paris Trip">>, "title_style"),
       Paragraph(<<"Great city">>, "body_style"),
       Spacer(30),
       Table(<< <<<<"Destination">>, destination>>,
                <<<<"Duration">>, <<"3", " ", "Days">>>>,
                <<<<"Budget">>, <<"$", "5,000">>>> >>),
       Spacer(30),
       Paragraph(<<"Trip at a Glance">>, "heading_style"),
       Table(<< <<<<"Day">>, <<"Theme">>>> >>
             \o [k \in DOMAIN daily_overview |->
                    <<<<"Day", " ">> \o daily_overview[k].day, daily_overview[k].theme>>]),
       PageBreak >>

\* the flowables of one stop; img is what download_image returned
stop_blocks(stop, img) ==
    << Spacer(20),
       Paragraph(stop.time_of_day \o <<":", " ">> \o stop.title, "heading_style") >>
    \o (IF img # "None" THEN <<ReportLabImage(img), Spacer(10)>> ELSE <<>>)
    \o << Paragraph(<<"<b>Description:</b>", " ">> \o stop.description, "body_style"),
          Paragraph(<<"<b>Best Time:</b>", " ">> \o stop.best_time, "body_style"),
          Paragraph(<<"<b>Getting There:</b>", " ">> \o stop.logistics, "body_style"),
          Paragraph(<<"<b>Veg Option:</b>", " ">> \o stop.veg, "body_style"),
          Paragraph(<<"<b>Non-Veg Option:</b>", " ">> \o stop.non_veg, "body_style"),
          Paragraph(<<"<b>Google Maps:</b>", " ">>
                    \o replace(stop.search_query, <<" ">>, <<"+">>), "body_style"),
          Spacer(20) >>

RECURSIVE Items(_)
\* the days and stops of a detailed itinerary, counted together
Items(days) ==
    IF days = <<>> THEN 0
    ELSE 1 + Len(Head(days).stops) + Items(Tail(days))

AppUnchanged ==
    UNCHANGED <<program, run, lines, section_state, stop_buffer, timeline_data,
                current_day, buf_src>>

CreatePdfHead ==
    /\ program = "travel_agent"
    /\ pc = "head"
    /\ pc' = "days"
    /\ \E daily_overview \in JsonDailyOverviews :
          /\ story' = story_append(story, head_blocks(daily_overview))
          /\ story_alt' = story_append(story_alt, head_blocks(daily_overview))
          /\ origin' = story_append(origin, Copies(<<0>>, Len(head_blocks(daily_overview))))
    /\ UNCHANGED itinerary
    /\ AppUnchanged

\* for day_data in itinerary['detailed_itinerary']: the day's title
CreatePdfDay ==
    /\ program = "travel_agent"
    /\ pc = "days"
    /\ Items(itinerary) < MaxItems
    /\ pc' = "stops"
    /\ \E day \in JsonDayNumbers :
          /\ itinerary' = Append(itinerary, [day |-> day, stops |-> <<>>])
          /\ story' = story_append(story, <<Paragraph(<<"Day", " ">> \o day, "title_style")>>)
          /\ story_alt' = story_append(story_alt,
                              <<Paragraph(<<"Day", " ">> \o day, "title_style")>>)
          /\ origin' = story_append(origin, <<<<Len(itinerary) + 1>>>>)
    /\ AppUnchanged

\* for stop in day_data['stops']
CreatePdfStop ==
    /\ program = "travel_agent"
    /\ pc = "stops"
    /\ Items(itinerary) < MaxItems
    /\ pc' = pc
    /\ \E stop \in JsonStops, img \in FetchResults :
          /\ itinerary' = [itinerary EXCEPT ![Len(itinerary)].stops = Append(@, stop)]
          /\ story' = story_append(story, stop_blocks(stop, img))
          /\ story_alt' = story_append(story_alt, stop_blocks(stop, Opposite(img)))
          /\ origin' = story_append(origin,
                           Copies(<<Len(itinerary), Len(Last(itinerary).stops) + 1>>,
                                  Len(stop_blocks(stop, img))))
    /\ AppUnchanged

\* the stops of the day are over: the page break that ends the day
CreatePdfDayEnd ==
    /\ program = "travel_agent"
    /\ pc = "stops"
    /\ pc' = "days"
    /\ story' = story_append(story, <<PageBreak>>)
    /\ story_alt' = story_append(story_alt, <<PageBreak>>)
    /\ origin' = story_append(origin, <<<<Len(itinerary)>>>>)
    /\ UNCHANGED itinerary
    /\ AppUnchanged

\* the days are over: doc.build(story)
CreatePdfBuild ==
    /\ program = "travel_agent"
    /\ pc = "days"
    /\ pc' = "built"
    /\ UNCHANGED <<itinerary, story, story_alt, origin>>
    /\ AppUnchanged

----------------------------------------------------------------------------
(* The main blocks of the two scripts *)

FrameOfMain ==
    UNCHANGED <<program, itinerary, lines, section_state, stop_buffer, timeline_data,
                current_day, story, story_alt, origin, buf_src>>

\* what the submitted form and the generation source may give:
\* "invalid" (a field or a key is missing), "failed" (generate_itinerary_text
\* returned None, generate_itinerary raised), "ok"
GenerationOutcomes == {"invalid", "failed", "ok"}

\* the test `if raw_text:` left out: generate_pdf is called on None as well
AppAfterGenerate_unchecked(outcome) ==
    /\ pc' = IF outcome = "invalid" THEN "done" ELSE "loop"
    /\ run' = [run EXCEPT !.generated = IF outcome = "invalid" THEN @ ELSE outcome,
                          !.builder = (outcome # "invalid")]

\* the state after the generation step of app.py: generate_pdf is called only
\* if raw_text is not None
AppAfterGenerate(outcome) ==
    /\ pc' = IF outcome = "ok" THEN "loop" ELSE "done"
    /\ run' = [run EXCEPT !.generated = IF outcome = "invalid" THEN @ ELSE outcome,
                          !.builder = (outcome = "ok")]

\* app.py: if submit_btn: ... raw_text = generate_itinerary_text(); if raw_text:
AppGenerate ==
    /\ program = "app"
    /\ pc = "start"
    /\ \E outcome \in GenerationOutcomes : AppAfterGenerate(outcome)
    /\ FrameOfMain

\* app.py: if send_email_with_pdf(pdf_file, email): success, download button
AppSend ==
    /\ program = "app"
    /\ pc = "built"
    /\ pc' = "done"
    /\ \E sent \in BOOLEAN :
          run' = [run EXCEPT !.email = IF sent THEN "sent" ELSE "failed",
                             !.download = sent]
    /\ FrameOfMain

\* the state after the generation step of travel_agent_py.py: an exception of
\* generate_itinerary leaves the try block
TaAfterGenerate(outcome) ==
    /\ pc' = IF outcome = "ok" THEN "head" ELSE "done"
    /\ run' = [run EXCEPT !.generated = IF outcome = "invalid" THEN @ ELSE outcome,
                          !.builder = (outcome = "ok")]

\* travel_agent_py.py main: itinerary = generate_itinerary(...)
TaGenerate ==
    /\ program = "travel_agent"
    /\ pc = "start"
    /\ \E outcome \in GenerationOutcomes : TaAfterGenerate(outcome)
    /\ FrameOfMain

\* travel_agent_py.py main: the PDF is saved locally
TaSave ==
    /\ program = "travel_agent"
    /\ pc = "built"
    /\ pc' = "saved"
    /\ run' = [run EXCEPT !.file = TRUE]
    /\ FrameOfMain

\* travel_agent_py.py main: if send_email(...): success, download button;
\* send_email raises when the credentials are not set
TaSend ==
    /\ program = "travel_agent"
    /\ pc = "saved"
    /\ pc' = "done"
    /\ \E result \in {"sent", "failed", "raised"} :
          run' = [run EXCEPT !.email = result, !.download = (result = "sent")]
    /\ FrameOfMain

----------------------------------------------------------------------------

Init ==
    /\ program \in {"app", "travel_agent"}
    /\ pc = "start"
    /\ run = [generated |-> "pending", builder |-> FALSE, file |-> FALSE,
              email |-> "none", download |-> FALSE]
    /\ itinerary = <<>>
    /\ lines = <<>>
    /\ section_state = "NORMAL"
    /\ stop_buffer = <<>>
    /\ timeline_data = << <<<<"Day">>, <<"Summary">>>> >>
    /\ current_day = <<>>
    /\ story = <<>>
    /\ story_alt = <<>>
    /\ origin = <<>>
    /\ buf_src = <<>>

Next ==
    \/ \E raw \in NextLines : SkipBlank(raw)
    \/ \E raw \in NextLines : TimelineStart(raw)
    \/ \E raw \in NextLines : TimelineEnd(raw)
    \/ \E raw \in NextLines : ItineraryStart(raw)
    \/ \E raw \in NextLines : ItineraryEnd(raw)
    \/ \E raw \in NextLines : TimelineLine(raw)
    \/ \E raw \in NextLines : ItineraryDay(raw)
    \/ \E raw \in NextLines : ItineraryStop(raw)
    \/ \E raw \in NextLines : ItineraryOther(raw)
    \/ \E raw \in NextLines : NormalLine(raw)
    \/ Build
    \/ CreatePdfHead
    \/ CreatePdfDay
    \/ CreatePdfStop
    \/ CreatePdfDayEnd
    \/ CreatePdfBuild
    \/ AppGenerate
    \/ AppSend
    \/ TaGenerate
    \/ TaSave
    \/ TaSend

Spec == Init /\ [][Next]_vars

----------------------------------------------------------------------------
(* Vocabulary of the properties *)

IsStopPanel(b)  == b.kind = "KeepTogether"
IsDayHeading(b) == b.kind = "Paragraph" /\ b.style = "Day"
IsTimelineTable(b) == b.kind = "Table"
IsSpacer(b)     == b.kind = "Spacer"

TextColumn(b)  == b.table.data[1][1]
ImageColumn(b) == b.table.data[1][2]

Panels == {k \in DOMAIN story : IsStopPanel(story[k])}
DayHeadings == {k \in DOMAIN story : IsDayHeading(story[k])}

\* the step consumes a line that takes branch b of the loop body
TakesBranch(b) ==
    /\ program = "app"
    /\ pc = "loop"
    /\ Len(lines') = Len(lines) + 1
    /\ Branch(Last(lines'), section_state) = b

----------------------------------------------------------------------------
(* C1: a day line read in ITINERARY state emits the open stop as a StopPanel
   before the new DayHeading (and leaves no stop open), so that the panels
   of a day stand between its heading and the next one. *)
C1_DayLineFlushesOpenStop ==
    [][ (TakesBranch("day") /\ stop_buffer # <<>>) =>
            /\ Len(story') = Len(story) + 4
            /\ IsStopPanel(story'[Len(story) + 1])
            /\ IsDayHeading(story'[Len(story) + 3])
            /\ stop_buffer' = <<>> ]_vars

(* C2: nothing buffered is lost at end-of-stream: when the document is built,
   the stop in the stop buffer has been emitted as a StopPanel and the
   accumulated timeline rows have been emitted as a TimelineTable. *)
C2_NothingBufferedIsLost ==
    pc = "built" =>
        /\ stop_buffer # <<>> =>
               \E k \in Panels : TextColumn(story[k]) = details_text(stop_buffer)
                                 /\ origin[k] = buf_src
        /\ Len(timeline_data) > 1 =>
               \E k \in DOMAIN story : story[k] = Table(timeline_data)

(* C3: a flush leaves the stop buffer empty (after an ITINERARY_END line the
   buffer is empty), and each STOP: line gives rise to at most one StopPanel. *)
C3_FlushEmptiesAndEmitsOnce ==
    /\ (lines # <<>> /\ Branch(Last(lines), "NORMAL") = "ITINERARY_END")
           => stop_buffer = <<>>
    /\ \A j, k \in Panels : origin[j][1] = origin[k][1] => j = k

(* C4: the lines rendered in a StopPanel are exactly the STOP: line that opened
   it followed by the lines read up to the next stop boundary (a STOP: line,
   a day line or ITINERARY_END): between the first and the last input line of
   a panel there is nothing but its own lines and blank lines. *)
C4_PanelHoldsExactlyItsStop ==
    \A k \in Panels :
        LET o == origin[k] IN
        /\ startswith(strip(lines[o[1]]), STOP)
        /\ \A i \in 2..Len(o) : ~ startswith(strip(lines[o[i]]), STOP)
        /\ \A i \in o[1]..o[Len(o)] : i \in Range(o) \/ strip(lines[i]) = <<>>
        /\ TextColumn(story[k]) = details_text([i \in DOMAIN o |-> strip(lines[o[i]])])

\* the day titles and the stop headings of create_pdf in story
JsonDayTitles ==
    {k \in DOMAIN story : /\ story[k].kind = "Paragraph"
                          /\ story[k].style = "title_style"
                          /\ origin[k] # <<0>>}
JsonStopHeadings ==
    {k \in DOMAIN story : /\ story[k].kind = "Paragraph"
                          /\ story[k].style = "heading_style"
                          /\ Len(origin[k]) = 2}

(* C5: the block list keeps input order: in generate_pdf the day headings
   stand in the order of their day lines and the StopPanels in the order of
   their STOP: lines; in create_pdf the day titles stand in list order and the
   stops of the itinerary in the order (day, stop) of the lists. *)
C5_BlocksKeepInputOrder ==
    /\ program = "app" =>
          /\ \A j, k \in Panels : origin[j][1] < origin[k][1] => j < k
          /\ \A j, k \in DayHeadings : origin[j][1] < origin[k][1] => j < k
    /\ program = "travel_agent" =>
          /\ \A j, k \in JsonDayTitles : origin[j][1] < origin[k][1] => j < k
          /\ \A j, k \in JsonStopHeadings :
                 (\/ origin[j][1] < origin[k][1]
                  \/ origin[j][1] = origin[k][1] /\ origin[j][2] < origin[k][2])
                     => j < k

\* two day headings and two panels of different stops stand in the built story
C5_Witness ==
    /\ program = "app"
    /\ pc = "built"
    /\ \E j, k \in Panels : origin[j][1] < origin[k][1]
    /\ \E j, k \in DayHeadings : origin[j][1] < origin[k][1]

\* the branch a line takes whatever the state: its section marker, if it has one
MarkerOf(raw) == Branch(raw, "NORMAL")

Balanced ==
    \A i \in DOMAIN lines :
        /\ MarkerOf(lines[i]) = "TIMELINE_START" =>
               \E j \in (i + 1)..Len(lines) : MarkerOf(lines[j]) = "TIMELINE_END"
        /\ MarkerOf(lines[i]) = "ITINERARY_START" =>
               \E j \in (i + 1)..Len(lines) : MarkerOf(lines[j]) = "ITINERARY_END"

(* C6: when every TIMELINE_START line read is followed by a TIMELINE_END line
   and every ITINERARY_START line by an ITINERARY_END line, the section state
   of generate_pdf is NORMAL. *)
C6_BalancedEndsInNormal ==
    (program = "app" /\ Balanced) => section_state = "NORMAL"

\* a balanced text with a timeline and an itinerary section has been read to its end
C6_Witness ==
    /\ program = "app"
    /\ pc = "built"
    /\ Balanced
    /\ \E i, j \in DOMAIN lines : /\ MarkerOf(lines[i]) = "TIMELINE_START"
                                  /\ MarkerOf(lines[j]) = "ITINERARY_START"

(* C7: in TIMELINE state a content line with a colon is split at its first
   colon only and appends exactly one row, the trimmed text before the colon
   and the trimmed text after it ("Day 2: Louvre and Seine walk" gives
   ("Day 2", "Louvre and Seine walk")); a line without a colon appends no
   row; neither emits a block. *)
C7_TimelineLineSplitsAtFirstColon ==
    [][ TakesBranch("timeline") =>
            LET line == strip(Last(lines')) IN
            /\ story' = story
            /\ IF \E k \in 1..Len(line) : line[k] = ":"
               THEN \E k \in 1..Len(line) :
                       /\ line[k] = ":"
                       /\ \A m \in 1..(k - 1) : line[m] # ":"
                       /\ timeline_data' =
                              Append(timeline_data,
                                     <<strip(SubSeq(line, 1, k - 1)),
                                       strip(SubSeq(line, k + 1, Len(line)))>>)
               ELSE timeline_data' = timeline_data
            /\ line = <<"Day", " ", "2", ":", " ", "Louvre and Seine walk">> =>
                   Last(timeline_data') = <<<<"Day", " ", "2">>, <<"Louvre and Seine walk">>>>
      ]_vars

\* the example line, a line with two colons and a line without a colon have been
\* read in TIMELINE state
C7_Witness ==
    /\ program = "app"
    /\ section_state = "TIMELINE"
    /\ Len(lines) = 4
    /\ MarkerOf(lines[1]) = "TIMELINE_START"
    /\ {lines[2], lines[3], lines[4]} = {L_Day2, L_BestTime, L_Plain}
    /\ Len(timeline_data) = 3
    /\ \E k \in DOMAIN timeline_data : contains(timeline_data[k][2], COLON)

\* the timeline section a TIMELINE_END line closes
SectionMarkers == {"TIMELINE_START", "TIMELINE_END", "ITINERARY_START", "ITINERARY_END"}

RECURSIVE RowsOf(_, _)
\* the rows of the content lines among the lines a..b of the input
RowsOf(a, b) ==
    IF a > b THEN <<>>
    ELSE (IF MarkerOf(lines[a]) \in SectionMarkers \cup {"blank"}
          THEN <<>>
          ELSE timeline_rows(strip(lines[a])))
         \o RowsOf(a + 1, b)

\* line s is a TIMELINE_START and the state stays TIMELINE from it up to line n
TimelineFrom(s, n) ==
    /\ MarkerOf(lines[s]) = "TIMELINE_START"
    /\ \A i \in (s + 1)..(n - 1) :
           MarkerOf(lines[i]) \notin {"TIMELINE_END", "ITINERARY_START", "ITINERARY_END"}

\* the TIMELINE_START line that opened the section the marker line n closes
OpenedBy(n) ==
    {s \in 1..(n - 1) : TimelineFrom(s, n) /\ \A t \in 1..(s - 1) : ~ TimelineFrom(t, n)}

(* C8: the TimelineTable emitted at a TIMELINE_END that closes a TIMELINE
   section holds the header row followed by exactly the rows of the colon
   lines of that section, in input order, and a PageBreak follows it. *)
C8_TableHoldsRowsOfItsSection ==
    program = "app" =>
        \A k \in DOMAIN story :
            IsTimelineTable(story[k]) =>
                \A s \in OpenedBy(origin[k][1]) :
                    /\ story[k].data = << <<<<"Day">>, <<"Summary">>>> >>
                                       \o RowsOf(s + 1, origin[k][1] - 1)
                    /\ k < Len(story)
                    /\ story[k + 1] = PageBreak

(* C9: image availability does not change the structure of the document of
   generate_pdf: the run whose Image Resolver answers the opposite at every
   call has a story of the same length with the same kinds of blocks in the
   same order, and a StopPanel without an image still has a non-empty text
   column, the same text, and an empty image column. *)
C9_ImagesDoNotChangeStructure ==
    program = "app" =>
        /\ Len(story_alt) = Len(story)
        /\ \A k \in DOMAIN story :
              /\ story_alt[k].kind = story[k].kind
              /\ IsStopPanel(story[k]) =>
                    /\ TextColumn(story[k]) # <<>>
                    /\ TextColumn(story_alt[k]) = TextColumn(story[k])
                    /\ (ImageColumn(story[k]) = <<>>) # (ImageColumn(story_alt[k]) = <<>>)
                    /\ Len(ImageColumn(story[k])) <= 1
                    /\ Len(ImageColumn(story_alt[k])) <= 1

\* a built document with two panels whose resolver returned none every time
C9_Witness ==
    /\ program = "app"
    /\ pc = "built"
    /\ Cardinality(Panels) >= 2
    /\ \A k \in Panels : ImageColumn(story[k]) = <<>> /\ ImageColumn(story_alt[k]) # <<>>

(* C10: the blocks of the end-to-end scenario, spacers aside. *)
NoSpacers(st) == SelectSeq(st, LAMBDA b : ~ IsSpacer(b))

E2E_Head ==
    << Paragraph(<<"Paris Trip">>, "Title"),
       Paragraph(<<"Trip Overview">>, "Header") >>

E2E_Glance ==
    << Paragraph(<<"Trip at a Glance">>, "Header") >>

E2E_Middle ==
    << Table(<< <<<<"Day">>, <<"Summary">>>>, <<<<"Day", " ", "1">>, <<"Arrival">>>> >>),
       PageBreak,
       Paragraph(<<"Detailed Visual Guide">>, "Header"),
       Paragraph(<<"Day", " ", "1", ":", " ", "Arrival Day">>, "Day"),
       Paragraph(<<"<hr width='100%' color='#D4AF37'/>">>, "Body") >>

E2E_Tail ==
    << PageBreak,
       Paragraph(<<"Travel Tips">>, "Header"),
       Paragraph(<<"Bring a coat">>, "Body") >>

\* a stop panel for "Eiffel Tower" with best time "9 AM"
IsEiffelPanel(b) ==
    /\ IsStopPanel(b)
    /\ TextColumn(b) = << Paragraph(<<"<b>", "pin", " ", "Eiffel Tower", "</b>">>, "Bold"),
                          Paragraph(<<"<b>Best Time:</b>", " ", " ", "9 AM">>, "Body") >>

\* st is: front, a stop panel for Eiffel Tower, E2E_Tail
E2E_Is(st, front) ==
    /\ Len(st) = Len(front) + 1 + Len(E2E_Tail)
    /\ SubSeq(st, 1, Len(front)) = front
    /\ IsEiffelPanel(st[Len(front) + 1])
    /\ SubSeq(st, Len(front) + 2, Len(st)) = E2E_Tail

E2E_Built == program = "app" /\ pc = "built" /\ lines = EndToEnd

(* C10 as stated: Title, "Trip Overview", the timeline table, a page break,
   "Detailed Visual Guide", the day heading with its rule, the stop panel, a
   page break, "Travel Tips", the paragraph "Bring a coat". *)
C10_AsStated ==
    E2E_Built => E2E_Is(NoSpacers(story), E2E_Head \o E2E_Middle)

(* C10 amended: the same sequence with the header "Trip at a Glance" of
   TIMELINE_START between "Trip Overview" and the timeline table. *)
C10_EndToEndBlocks ==
    E2E_Built => E2E_Is(NoSpacers(story), E2E_Head \o E2E_Glance \o E2E_Middle)

C10_Witness ==
    E2E_Built

(* C11: a failure of the generation source aborts the run before any
   rendering: when generate_itinerary_text returned None (app.py) or
   generate_itinerary raised (travel_agent_py.py) the PDF builder is never
   called, no block is made, no file is written and no email is sent. *)
C11_GenerationFailureAbortsBeforeRendering ==
    run.generated = "failed" =>
        /\ pc = "done"
        /\ ~ run.builder
        /\ story = <<>>
        /\ ~ run.file
        /\ run.email = "none"
        /\ ~ run.download

\* the generation source of travel_agent_py.py has failed
C11_Witness ==
    program = "travel_agent" /\ run.generated = "failed" /\ pc = "done"

(* C12: a delivery failure does not invalidate the built document: when the
   email step returned False after the PDF was built, the download is still
   offered, as it is when the send succeeds. *)
C12_DeliveryFailureKeepsDownload ==
    (pc = "done" /\ run.email \in {"sent", "failed"}) => run.download

(* C13: in ITINERARY state a line that is neither a day line nor a STOP:
   line is appended to the open stop of the current day if one is open and
   is otherwise discarded; a line read after a day heading and before that
   day's first STOP: line reaches no stop, the previous day's last stop
   included. *)
OpenStopOfCurrentDay ==
    /\ stop_buffer # <<>>
    /\ \A h \in DayHeadings : origin[h][1] < buf_src[1]

C13_ContentGoesToOpenStopOfItsDay ==
    [][ TakesBranch("other") =>
            /\ story' = story
            /\ stop_buffer' = IF OpenStopOfCurrentDay
                              THEN Append(stop_buffer, strip(Last(lines')))
                              ELSE stop_buffer ]_vars

\* the blocks the step adds to story
NewBlocks == SubSeq(story', Len(story) + 1, Len(story'))

\* the position of the first marker of `markers` that `line` contains, or 0
FirstHeld(line, markers) ==
    LET held == {i \in DOMAIN markers : contains(line, markers[i])} IN
    IF held = {} THEN 0 ELSE CHOOSE i \in held : \A j \in held : i <= j

FieldMarkers == <<TITLE, OVERVIEW, GETTING_THERE, TRAVEL_TIPS>>

TipsHeading == Paragraph(<<"Travel Tips">>, "Header")

C14_Step ==
    TakesBranch("normal") =>
        LET line == strip(Last(lines'))
            f    == FirstHeld(line, FieldMarkers)
        IN  /\ SubSeq(story', 1, Len(story)) = story
            /\ f = 1 => NoSpacers(NewBlocks) =
                            <<Paragraph(strip(replace(line, TITLE, <<>>)), "Title")>>
            /\ f = 2 => NoSpacers(NewBlocks) = <<Paragraph(<<"Trip Overview">>, "Header")>>
            /\ f = 3 => NoSpacers(NewBlocks) =
                            <<Paragraph(<<"How to Reach ">> \o destination, "Header")>>
            /\ f = 4 => NewBlocks = <<PageBreak, TipsHeading>>
            /\ f = 0 => NewBlocks = <<Paragraph(line, "Body")>>
            /\ UNCHANGED <<section_state, stop_buffer, timeline_data>>

C14_TipsAfterBreak ==
    program = "app" =>
        \A k \in DOMAIN story :
            story[k] = TipsHeading => k > 1 /\ story[k - 1] = PageBreak

(* C14: in NORMAL state a non-empty line without section marker emits the
   blocks of the first field marker it holds, tested in the order TITLE:,
   OVERVIEW:, GETTING_THERE:, TRAVEL_TIPS: (a Title with the remaining text,
   the heading alone, the heading alone, a PageBreak directly followed by the
   "Travel Tips" heading), and one Paragraph holding the line when it holds
   none; every "Travel Tips" heading of story directly follows a PageBreak. *)
C14_GeneralLineEmitsByFirstFieldMarker ==
    [][C14_Step]_vars /\ []C14_TipsAfterBreak

C14_Witness ==
    /\ program = "app"
    /\ lines = FieldOrder
    /\ NoSpacers(story) =
          << Paragraph(<<"OVERVIEW", ":", " ", "see", " ", " ", "Paris Trip">>, "Title"),
             Paragraph(<<"Trip Overview">>, "Header"),
             Paragraph(<<"How to Reach ">> \o destination, "Header"),
             PageBreak, TipsHeading,
             Paragraph(<<"Bring a coat">>, "Body") >>

SectionOrder == <<TIMELINE_START, TIMELINE_END, ITINERARY_START, ITINERARY_END>>

SectionStateOf == <<"TIMELINE", "NORMAL", "ITINERARY", "NORMAL">>

(* C15: in every section state a line holding TIMELINE_START, TIMELINE_END,
   ITINERARY_START or ITINERARY_END (tested in that order) only sets the
   section state and emits that marker's blocks: it is not appended to
   stop_buffer, adds no timeline row, is emitted neither as Paragraph nor as
   Title, and unless the marker is ITINERARY_END stop_buffer is unchanged. *)
C15_SectionMarkersPrecedeContent ==
    [][ ( /\ program = "app"
          /\ pc = "loop"
          /\ Len(lines') = Len(lines) + 1
          /\ FirstHeld(strip(Last(lines')), SectionOrder) # 0 ) =>
            LET line == strip(Last(lines'))
                m    == FirstHeld(line, SectionOrder)
            IN  /\ section_state' = SectionStateOf[m]
                /\ timeline_data' = timeline_data
                /\ current_day' = current_day
                /\ SubSeq(story', 1, Len(story)) = story
                /\ m = 1 => NoSpacers(NewBlocks) =
                                <<Paragraph(<<"Trip at a Glance">>, "Header")>>
                /\ m = 2 => NewBlocks = <<Table(timeline_data), PageBreak>>
                /\ m = 3 => NewBlocks =
                                <<Paragraph(<<"Detailed Visual Guide">>, "Header")>>
                /\ m = 4 => /\ stop_buffer' \in {stop_buffer, <<>>}
                            /\ \A k \in DOMAIN NewBlocks :
                                   IsStopPanel(NewBlocks[k]) \/ IsSpacer(NewBlocks[k])
                            /\ stop_buffer = <<>> => NewBlocks = <<>>
                /\ m # 4 => stop_buffer' = stop_buffer ]_vars

C15_Witness ==
    /\ program = "app"
    /\ lines = MarkerLines
    /\ section_state = "NORMAL"
    /\ stop_buffer = <<STOP \o <<" ", "Eiffel Tower">>, <<"BEST TIME", ":", " ", "9 AM">>>>
    /\ Cardinality(Panels) = 1
    /\ DayHeadings = {}
    /\ \E k \in DOMAIN story : IsTimelineTable(story[k])

C16_Shape ==
    program = "app" =>
        /\ stop_buffer # <<>> =>
              /\ startswith(stop_buffer[1], STOP)
              /\ \A i \in 2..Len(stop_buffer) : ~ startswith(stop_buffer[i], STOP)
        /\ \A k \in Panels :
              LET given == [i \in DOMAIN origin[k] |-> strip(lines[origin[k][i]])] IN
              /\ startswith(given[1], STOP)
              /\ \A i \in 2..Len(given) : ~ startswith(given[i], STOP)
              /\ TextColumn(story[k]) = details_text(given)

C16_Growth ==
    stop_buffer' # stop_buffer =>
        /\ program = "app"
        /\ section_state = "ITINERARY"
        /\ section_state' = "ITINERARY"

(* C16: after every processed line stop_buffer is empty, or its first element
   starts with "STOP:" and no later element does; stop_buffer changes only
   while the section state is ITINERARY; so every create_stop_table call is
   given exactly one STOP: line, at position 0. *)
C16_StopBufferShape ==
    []C16_Shape /\ [][C16_Growth]_vars

C16_Witness ==
    /\ program = "app"
    /\ Len(stop_buffer) >= 2
    /\ Panels # {}

=============================================================================
